---------------------------- MODULE Spec2Model ----------------------------
(***************************************************************************)
(* Model of the rating-history pipeline of the chess dashboard:            *)
(*   mergeSeries, sliceSeriesByTimeframe, buildChartDataForView and        *)
(*   calculateYAxisDomain (series.js), fetchRapidHistory (chessApi.js),    *)
(*   and loadAllData, the refresh effects and togglePlayer (Chess.jsx)     *)
(* A calendar day ("YYYY-MM-DD" string) is the tuple <<year, month, day>>; *)
(* JavaScript's string comparison of two zero-padded ISO days is the       *)
(* lexicographic comparison of the tuples.  A value that may be null is a  *)
(* sequence: <<>> is null/undefined, <<n>> is the number n.                *)
(***************************************************************************)
EXTENDS Integers, Sequences, FiniteSets, TLC

VARIABLES
  \* mergeSeries(players, seriesByUser)
  players, seriesByUser, sortedDates, pointerByUser, lastSeen, rows, mergePc,
  \* sliceSeriesByTimeframe(chartData, timeframe, timeframes, now) on a host
  \* whose local time is UTC + tzOffset hours
  chartData, timeframe, timeframes, now, tzOffset,
  cutoffKey, startIndex, sliced, slicePc,
  \* buildChartDataForView(timeframeData, players, hiddenPlayers), and the same
  \* call once more on its own result
  timeframeData, viewPlayers, hiddenPlayers, chartDataForView, viewTwice, viewPc,
  \* calculateYAxisDomain(chartDataForView, activePlayers), and the same call
  \* after a field of an inactive player was changed
  domainRows, activePlayers, yDomain, domainBefore, domainPc,
  \* fetchRapidHistory(username): the UTC month of the clock, the games of the
  \* monthly archives of the server, the localStorage item of the player, how
  \* the last call ended and what it returned, and the points the last call
  \* saw (those of the cached history and those of the games it fetched)
  utcMonth, archives, cache, fetchOutcome, fetchValue, seenGames, fetchPc,
  \* the Chess component: its state (seriesByUser and hiddenPlayers above are
  \* two more of its state variables), the pending midnight timeout, the
  \* loadAllData invocations in flight, how many were started, and the
  \* invocation that ended last
  loading, error, profiles, lastUpdated, timerPending, inFlight, started, lastCall, appPc

mergeVars == <<players, seriesByUser, sortedDates, pointerByUser, lastSeen, rows, mergePc>>
sliceVars == <<chartData, timeframe, timeframes, now, tzOffset, cutoffKey, startIndex, sliced, slicePc>>
viewVars == <<timeframeData, viewPlayers, hiddenPlayers, chartDataForView, viewTwice, viewPc>>
domainVars == <<domainRows, activePlayers, yDomain, domainBefore, domainPc>>
fetchVars == <<utcMonth, archives, cache, fetchOutcome, fetchValue, seenGames, fetchPc>>
appVars == <<loading, error, profiles, lastUpdated, timerPending, inFlight, started, lastCall, appPc>>
vars == <<mergeVars, sliceVars, viewVars, domainVars, fetchVars, appVars>>

----------------------------------------------------------------------------
\* Bounds of the model

\* longest per-player series
MaxObs == 2
\* longest table handed to sliceSeriesByTimeframe
MaxRows == 3
\* longest table handed to buildChartDataForView
MaxViewRows == 2
\* longest table handed to calculateYAxisDomain
MaxDomainRows == 2

\* usernames
Names == {"alpha", "beta", "gamma"}
\* ratings of the observations
Ratings == {1000, 1010}
\* days on which observations are made
ObsDates == {<<2025, 1, 1>>, <<2025, 1, 2>>, <<2025, 1, 3>>}

----------------------------------------------------------------------------
\* Values and dates

Null == <<>>
Num(n) == <<n>>
Undefined == <<>>

\* a.date < b.date on "YYYY-MM-DD" strings
DateLT(a, b) ==
  \/ a[1] < b[1]
  \/ a[1] = b[1] /\ a[2] < b[2]
  \/ a[1] = b[1] /\ a[2] = b[2] /\ a[3] < b[3]

DateLE(a, b) == a = b \/ DateLT(a, b)

DateGE(a, b) == DateLE(b, a)

Range(s) == {s[i] : i \in 1..Len(s)}

StrictlyIncreasing(s) == \A i \in 1..(Len(s) - 1) : DateLT(s[i].date, s[i + 1].date)

----------------------------------------------------------------------------
\* mergeSeries

\* lines 2-5: every date of every series of the mapping
AllDates(series) == UNION {{series[u][i].date : i \in 1..Len(series[u])} : u \in DOMAIN series}

\* a sort with the comparison reversed
RECURSIVE SortDatesDescending(_)
SortDatesDescending(S) ==
  IF S = {} THEN <<>>
  ELSE LET greatest == CHOOSE d \in S : \A e \in S : DateLE(e, d)
       IN <<greatest>> \o SortDatesDescending(S \ {greatest})

\* line 7: [...allDates].sort()
RECURSIVE SortDates(_)
SortDates(S) ==
  IF S = {} THEN <<>>
  ELSE LET least == CHOOSE d \in S : \A e \in S : DateLE(d, e)
       IN <<least>> \o SortDates(S \ {least})

\* line 15: seriesByUser[player.username] || []
SeriesOf(series, u) == IF u \in DOMAIN series THEN series[u] ELSE <<>>

\* the while loop with < in place of <= : an observation made on the row's
\* own date is not consumed
RECURSIVE AdvanceStrict(_, _, _, _)
AdvanceStrict(series, pointer, last, date) ==
  IF pointer < Len(series) /\ DateLT(series[pointer + 1].date, date)
  THEN AdvanceStrict(series, pointer + 1, Num(series[pointer + 1].rating), date)
  ELSE [pointer |-> pointer, last |-> last]

\* lines 18-21: the while loop; last is lastSeen[username] (<<>> when unset)
RECURSIVE Advance(_, _, _, _)
Advance(series, pointer, last, date) ==
  IF pointer < Len(series) /\ DateLE(series[pointer + 1].date, date)
  THEN Advance(series, pointer + 1, Num(series[pointer + 1].rating), date)
  ELSE [pointer |-> pointer, last |-> last]

\* line 24: lastSeen[player.username] ?? null
LastSeenOf(seen, u) == IF u \in DOMAIN seen THEN seen[u] ELSE Undefined

\* the loop over the roster with a cursor that is read but never written back:
\* every row scans the series again from its start
RECURSIVE MergePlayersRescanning(_, _, _, _, _)
MergePlayersRescanning(roster, series, date, k, st) ==
  IF k > Len(roster) THEN st
  ELSE LET u == roster[k]
           adv == Advance(SeriesOf(series, u), st.pointerByUser[u],
                          LastSeenOf(st.lastSeen, u), date)
           seen == IF adv.last = Undefined THEN st.lastSeen
                   ELSE [v \in DOMAIN st.lastSeen \cup {u} |->
                           IF v = u THEN adv.last ELSE st.lastSeen[v]]
           val == IF LastSeenOf(seen, u) = Undefined THEN Null ELSE LastSeenOf(seen, u)
       IN MergePlayersRescanning(roster, series, date, k + 1,
            [pointerByUser |-> st.pointerByUser,
             lastSeen |-> seen,
             row |-> [date |-> date,
                      vals |-> [v \in DOMAIN st.row.vals \cup {u} |->
                                  IF v = u THEN val ELSE st.row.vals[v]]]])

\* lines 14-25: the loop over the roster for one date, from player number k on;
\* st = [pointerByUser, lastSeen, row]
RECURSIVE MergePlayers(_, _, _, _, _)
MergePlayers(roster, series, date, k, st) ==
  IF k > Len(roster) THEN st
  ELSE LET u == roster[k]
           adv == Advance(SeriesOf(series, u), st.pointerByUser[u],
                          LastSeenOf(st.lastSeen, u), date)
           seen == IF adv.last = Undefined THEN st.lastSeen
                   ELSE [v \in DOMAIN st.lastSeen \cup {u} |->
                           IF v = u THEN adv.last ELSE st.lastSeen[v]]
           val == IF LastSeenOf(seen, u) = Undefined THEN Null ELSE LastSeenOf(seen, u)
       IN MergePlayers(roster, series, date, k + 1,
            [pointerByUser |-> [st.pointerByUser EXCEPT ![u] = adv.pointer],
             lastSeen |-> seen,
             row |-> [date |-> date,
                      vals |-> [v \in DOMAIN st.row.vals \cup {u} |->
                                  IF v = u THEN val ELSE st.row.vals[v]]]])

\* line 12: const row = { date }
EmptyVals == [v \in {} |-> Null]

\* the map callback with lastSeen declared inside it: reset for every row
MergeRowResetSeen(roster, series, ptrs, seen, date) ==
  MergePlayers(roster, series, date, 1,
    [pointerByUser |-> ptrs, lastSeen |-> EmptyVals,
     row |-> [date |-> date, vals |-> EmptyVals]])

\* lines 11-27: the map callback for one date
MergeRow(roster, series, ptrs, seen, date) ==
  MergePlayers(roster, series, date, 1,
    [pointerByUser |-> ptrs, lastSeen |-> seen,
     row |-> [date |-> date, vals |-> EmptyVals]])

\* lines 1-29: the whole call, from the state after line 9
RECURSIVE MergeFrom(_, _, _, _, _, _)
MergeFrom(roster, series, dates, k, ptrs, seen) ==
  IF k > Len(dates) THEN <<>>
  ELSE LET st == MergeRow(roster, series, ptrs, seen, dates[k])
       IN <<st.row>> \o MergeFrom(roster, series, dates, k + 1, st.pointerByUser, st.lastSeen)

mergeSeries(roster, series) ==
  MergeFrom(roster, series, SortDates(AllDates(series)), 1,
            [u \in Range(roster) |-> 0], EmptyVals)

\* the inputs: rosters of distinct usernames, sorted unique-dated series
Rosters == {r \in UNION {[1..n -> Names] : n \in 0..Cardinality(Names)} :
              \A i, j \in 1..Len(r) : r[i] = r[j] => i = j}

Observations == [date : ObsDates, rating : Ratings]

SeriesSet == {s \in UNION {[1..n -> Observations] : n \in 0..MaxObs} : StrictlyIncreasing(s)}

SeriesMaps == UNION {[U -> SeriesSet] : U \in SUBSET Names}

NoDate == <<>>

SliceIdle ==
  /\ chartData = <<>> /\ timeframe = "" /\ timeframes = <<>> /\ now = <<>>
  /\ tzOffset = 0 /\ cutoffKey = NoDate /\ startIndex = -1 /\ sliced = <<>>
  /\ slicePc = "idle"

ViewIdle ==
  /\ timeframeData = <<>> /\ viewPlayers = <<>> /\ hiddenPlayers = {}
  /\ chartDataForView = <<>> /\ viewTwice = <<>> /\ viewPc = "idle"

NoDomain == <<>>

DomainIdle ==
  /\ domainRows = <<>> /\ activePlayers = <<>> /\ yDomain = NoDomain
  /\ domainBefore = NoDomain /\ domainPc = "idle"

FetchIdle ==
  /\ utcMonth = <<>> /\ archives = {} /\ cache = <<>> /\ fetchOutcome = "none"
  /\ fetchValue = <<>> /\ seenGames = {} /\ fetchPc = "idle"

AppIdle ==
  /\ loading = FALSE /\ error = "" /\ profiles = <<>> /\ lastUpdated = <<>>
  /\ timerPending = FALSE /\ inFlight = {} /\ started = 0 /\ lastCall = <<>>
  /\ appPc = "idle"

InitMerge ==
  /\ players \in Rosters
  /\ seriesByUser \in SeriesMaps
  /\ sortedDates = <<>>
  /\ pointerByUser = EmptyVals
  /\ lastSeen = EmptyVals
  /\ rows = <<>>
  /\ mergePc = "call"
  /\ SliceIdle
  /\ ViewIdle
  /\ DomainIdle
  /\ FetchIdle
  /\ AppIdle

\* lines 1-9
MergeBegin ==
  /\ mergePc = "call"
  /\ sortedDates' = SortDates(AllDates(seriesByUser))
  /\ pointerByUser' = [u \in Range(players) |-> 0]
  /\ lastSeen' = EmptyVals
  /\ rows' = <<>>
  /\ mergePc' = "map"
  /\ UNCHANGED <<players, seriesByUser, sliceVars, viewVars, domainVars, fetchVars, appVars>>

\* the observations a cursor has passed are removed from the caller's series
\* (a merge that consumes its input with shift())
ConsumedSeries(series, ptrs) ==
  [u \in DOMAIN series |->
     IF u \in DOMAIN ptrs THEN SubSeq(series[u], ptrs[u] + 1, Len(series[u])) ELSE series[u]]

MergeStepConsuming ==
  /\ mergePc = "map"
  /\ Len(rows) < Len(sortedDates)
  /\ LET st == MergeRow(players, seriesByUser, pointerByUser, lastSeen,
                        sortedDates[Len(rows) + 1])
     IN /\ pointerByUser' = [u \in DOMAIN st.pointerByUser |-> 0]
        /\ lastSeen' = st.lastSeen
        /\ rows' = Append(rows, st.row)
        /\ seriesByUser' = ConsumedSeries(seriesByUser, st.pointerByUser)
  /\ UNCHANGED <<players, sortedDates, mergePc, sliceVars, viewVars, domainVars, fetchVars, appVars>>

\* lines 11-27, one date
MergeStep ==
  /\ mergePc = "map"
  /\ Len(rows) < Len(sortedDates)
  /\ LET st == MergeRow(players, seriesByUser, pointerByUser, lastSeen,
                        sortedDates[Len(rows) + 1])
     IN /\ pointerByUser' = st.pointerByUser
        /\ lastSeen' = st.lastSeen
        /\ rows' = Append(rows, st.row)
  /\ UNCHANGED <<players, seriesByUser, sortedDates, mergePc, sliceVars, viewVars, domainVars, fetchVars, appVars>>

\* line 28: the map is over
MergeReturn ==
  /\ mergePc = "map"
  /\ Len(rows) = Len(sortedDates)
  /\ mergePc' = "done"
  /\ UNCHANGED <<players, seriesByUser, sortedDates, pointerByUser, lastSeen, rows, sliceVars, viewVars, domainVars, fetchVars, appVars>>

NextMerge == MergeBegin \/ MergeStep \/ MergeReturn

SpecMerge == InitMerge /\ [][NextMerge]_vars

----------------------------------------------------------------------------
\* Calendar arithmetic of the JavaScript Date used by sliceSeriesByTimeframe.
\* An instant is [date |-> UTC day, hour |-> UTC hour of that day]; the host's
\* local time is UTC + tz hours.

IsLeapYear(y) == (y % 4 = 0 /\ y % 100 # 0) \/ y % 400 = 0

DaysInMonth(y, m) ==
  IF m = 2 THEN (IF IsLeapYear(y) THEN 29 ELSE 28)
  ELSE IF m \in {4, 6, 9, 11} THEN 30 ELSE 31

NextDay(d) ==
  IF d[3] < DaysInMonth(d[1], d[2]) THEN <<d[1], d[2], d[3] + 1>>
  ELSE IF d[2] < 12 THEN <<d[1], d[2] + 1, 1>>
  ELSE <<d[1] + 1, 1, 1>>

PrevDay(d) ==
  IF d[3] > 1 THEN <<d[1], d[2], d[3] - 1>>
  ELSE IF d[2] > 1 THEN <<d[1], d[2] - 1, DaysInMonth(d[1], d[2] - 1)>>
  ELSE <<d[1] - 1, 12, 31>>

\* lines 41-42: new Date(now); setHours(0, 0, 0, 0) -- the local day of the
\* instant, at local midnight
SetHoursZero(instant, tz) ==
  IF instant.hour + tz >= 24 THEN NextDay(instant.date)
  ELSE IF instant.hour + tz < 0 THEN PrevDay(instant.date)
  ELSE instant.date

\* selected.months as a number in getMonth() - selected.months
MonthsNumber(months) == IF months = Null THEN 0 ELSE months[1]

\* line 43: setMonth(getMonth() - months) on a local day; a month index out of
\* 0..11 borrows from the year, a day past the end of the month runs over into
\* the next month
SetMonthBack(day, months) ==
  LET index == (day[2] - 1) - months
      year == day[1] + (index \div 12)
      month == (index % 12) + 1
      length == DaysInMonth(year, month)
  IN IF day[3] <= length THEN <<year, month, day[3]>>
     ELSE IF month < 12 THEN <<year, month + 1, day[3] - length>>
     ELSE <<year + 1, 1, day[3] - length>>

\* line 44: toISOString().slice(0, 10) of local midnight of a local day: the
\* UTC day of that instant
ToISODate(localDay, tz) == IF tz > 0 THEN PrevDay(localDay) ELSE localDay

\* lines 41-44
CutoffKey(instant, tz, months) ==
  ToISODate(SetMonthBack(SetHoursZero(instant, tz), MonthsNumber(months)), tz)

----------------------------------------------------------------------------
\* sliceSeriesByTimeframe

\* a lookup that falls back to the first option of the list
FindOrFirst(options, key) ==
  IF \E i \in 1..Len(options) : options[i].key = key
  THEN LET first == CHOOSE i \in 1..Len(options) :
                      /\ options[i].key = key
                      /\ \A j \in 1..(i - 1) : options[j].key # key
       IN <<options[first]>>
  ELSE IF Len(options) > 0 THEN <<options[1]>> ELSE Undefined

\* line 36: timeframes.find((option) => option.key === timeframe)
Find(options, key) ==
  IF \E i \in 1..Len(options) : options[i].key = key
  THEN LET first == CHOOSE i \in 1..Len(options) :
                      /\ options[i].key = key
                      /\ \A j \in 1..(i - 1) : options[j].key # key
       IN <<options[first]>>
  ELSE Undefined

\* a test that only looks whether an option was found
NotFound(selected) == selected = Undefined

\* line 37: !selected?.months
NoMonths(selected) ==
  \/ selected = Undefined
  \/ selected[1].months = Null
  \/ selected[1].months = Num(0)

\* lines 32-39: the calls that return the table as it is
ReturnsInput(table, key, options) ==
  \/ key = "all"
  \/ Len(table) = 0
  \/ NoMonths(Find(options, key))

\* line 46: chartData.findIndex((row) => row.date >= cutoffKey), from 0
FindIndex(table, key) ==
  IF \E i \in 1..Len(table) : DateGE(table[i].date, key)
  THEN (CHOOSE i \in 1..Len(table) :
          /\ DateGE(table[i].date, key)
          /\ \A j \in 1..(i - 1) : ~DateGE(table[j].date, key)) - 1
  ELSE -1

\* no row of an all-older table is kept
LastRowDropped(table) == <<>>

\* the oldest row of an all-older table is kept
FirstRowOnly(table) == SubSeq(table, 1, 1)

\* line 48: chartData.slice(-1)
LastRowOnly(table) == SubSeq(table, Len(table), Len(table))

\* the row at the index is copied, not the one before it
BoundaryRowAtIndex(table, index, key) == [table[index + 1] EXCEPT !.date = key]

\* line 53: { ...chartData[startIndex - 1], date: cutoffKey }
BoundaryRow(table, index, key) == [table[index] EXCEPT !.date = key]

\* lines 51-56
SliceFrom(table, index, key) ==
  LET kept == SubSeq(table, index + 1, Len(table))
  IN IF index > 0 THEN <<BoundaryRow(table, index, key)>> \o kept ELSE kept

\* lines 31-57
sliceSeriesByTimeframe(table, key, options, instant, tz) ==
  IF ReturnsInput(table, key, options) THEN table
  ELSE LET cutoff == CutoffKey(instant, tz, Find(options, key)[1].months)
           index == FindIndex(table, cutoff)
       IN IF index = -1 THEN LastRowOnly(table) ELSE SliceFrom(table, index, cutoff)

\* the timeframes of the application, of the tests, and a list that names its
\* options differently
ConfigTimeframes ==
  << [key |-> "1m", months |-> Num(1)], [key |-> "3m", months |-> Num(3)],
     [key |-> "6m", months |-> Num(6)], [key |-> "1y", months |-> Num(12)],
     [key |-> "all", months |-> Null] >>

TestTimeframes == << [key |-> "1m", months |-> Num(1)], [key |-> "all", months |-> Null] >>

RenamedTimeframes == << [key |-> "all", months |-> Num(1)], [key |-> "full", months |-> Null] >>

TimeframeLists == {ConfigTimeframes, TestTimeframes, RenamedTimeframes}

TimeframeKeys == {"1m", "3m", "all", "full", "5y"}

\* instants and hosts
Instants ==
  { [date |-> <<2025, 3, 15>>, hour |-> 12],
    [date |-> <<2025, 3, 31>>, hour |-> 23],
    [date |-> <<2025, 3, 1>>, hour |-> 1] }

TzOffsets == {-5, 0, 2}

\* the tables: strictly increasing by date, a value or null for each player
TablePlayers == {"alpha", "beta"}

TableDates == {<<2025, 1, 1>>, <<2025, 2, 14>>, <<2025, 2, 15>>, <<2025, 3, 1>>}

TableVals == [TablePlayers -> {Null} \cup {Num(r) : r \in Ratings}]

Tables ==
  UNION { {[i \in 1..Len(ds) |-> [date |-> ds[i], vals |-> f[i]]] : f \in [1..Len(ds) -> TableVals]} :
          ds \in {SortDates(S) : S \in {T \in SUBSET TableDates : Cardinality(T) <= MaxRows}} }

MergeIdle ==
  /\ players = <<>> /\ seriesByUser = EmptyVals /\ sortedDates = <<>>
  /\ pointerByUser = EmptyVals /\ lastSeen = EmptyVals /\ rows = <<>>
  /\ mergePc = "idle"

InitSlice ==
  /\ chartData \in Tables
  /\ timeframe \in TimeframeKeys
  /\ timeframes \in TimeframeLists
  /\ now \in Instants
  /\ tzOffset \in TzOffsets
  /\ cutoffKey = NoDate
  /\ startIndex = -1
  /\ sliced = <<>>
  /\ slicePc = "call"
  /\ MergeIdle
  /\ ViewIdle
  /\ DomainIdle
  /\ FetchIdle
  /\ AppIdle

\* a slice that makes the boundary row in place, by writing cutoffKey into the
\* date of the caller's row before startIndex
SliceInPlace ==
  /\ slicePc = "call"
  /\ sliced' = sliceSeriesByTimeframe(chartData, timeframe, timeframes, now, tzOffset)
  /\ cutoffKey' = IF ReturnsInput(chartData, timeframe, timeframes) THEN NoDate
                  ELSE CutoffKey(now, tzOffset, Find(timeframes, timeframe)[1].months)
  /\ startIndex' = IF ReturnsInput(chartData, timeframe, timeframes) THEN -1
                   ELSE FindIndex(chartData, cutoffKey')
  /\ chartData' = IF startIndex' > 0
                  THEN [chartData EXCEPT ![startIndex'] = BoundaryRow(chartData, startIndex', cutoffKey')]
                  ELSE chartData
  /\ slicePc' = "done"
  /\ UNCHANGED <<timeframe, timeframes, now, tzOffset, mergeVars, viewVars, domainVars, fetchVars, appVars>>

\* lines 31-57: one call; cutoffKey and startIndex keep what the call computed
Slice ==
  /\ slicePc = "call"
  /\ sliced' = sliceSeriesByTimeframe(chartData, timeframe, timeframes, now, tzOffset)
  /\ cutoffKey' = IF ReturnsInput(chartData, timeframe, timeframes) THEN NoDate
                  ELSE CutoffKey(now, tzOffset, Find(timeframes, timeframe)[1].months)
  /\ startIndex' = IF ReturnsInput(chartData, timeframe, timeframes) THEN -1
                   ELSE FindIndex(chartData, cutoffKey')
  /\ slicePc' = "done"
  /\ UNCHANGED <<chartData, timeframe, timeframes, now, tzOffset, mergeVars, viewVars, domainVars, fetchVars, appVars>>

NextSlice == Slice

SpecSlice == InitSlice /\ [][NextSlice]_vars

----------------------------------------------------------------------------
\* buildChartDataForView

\* row[username] = value on a copy of the row
SetField(vals, u, value) == [v \in DOMAIN vals \cup {u} |-> IF v = u THEN value ELSE vals[v]]

\* the loop with the test negated: the players that are not hidden are nulled
RECURSIVE HideUnlessHidden(_, _, _, _)
HideUnlessHidden(next, roster, hidden, k) ==
  IF k > Len(roster) THEN next
  ELSE HideUnlessHidden(
         IF roster[k] \notin hidden THEN [next EXCEPT !.vals = SetField(next.vals, roster[k], Null)]
         ELSE next,
         roster, hidden, k + 1)

\* the loop without the test: every player of the roster is nulled
RECURSIVE HideEveryPlayer(_, _, _, _)
HideEveryPlayer(next, roster, hidden, k) ==
  IF k > Len(roster) THEN next
  ELSE HideEveryPlayer([next EXCEPT !.vals = SetField(next.vals, roster[k], Null)],
                       roster, hidden, k + 1)

\* lines 62-66: for (const player of players) if (hiddenPlayers.has(...)) ...
RECURSIVE HidePlayers(_, _, _, _)
HidePlayers(next, roster, hidden, k) ==
  IF k > Len(roster) THEN next
  ELSE HidePlayers(
         IF roster[k] \in hidden THEN [next EXCEPT !.vals = SetField(next.vals, roster[k], Null)]
         ELSE next,
         roster, hidden, k + 1)

\* lines 59-69
buildChartDataForView(table, roster, hidden) ==
  [i \in 1..Len(table) |-> HidePlayers(table[i], roster, hidden, 1)]

\* the tables: those of the slicer, up to MaxViewRows rows
ViewTables == {t \in Tables : Len(t) <= MaxViewRows}

InitView ==
  /\ timeframeData \in ViewTables
  /\ viewPlayers \in Rosters
  /\ hiddenPlayers \in SUBSET Names
  /\ chartDataForView = <<>>
  /\ viewTwice = <<>>
  /\ viewPc = "call"
  /\ MergeIdle
  /\ SliceIdle
  /\ DomainIdle
  /\ FetchIdle
  /\ AppIdle

\* lines 59-69: one call
BuildView ==
  /\ viewPc = "call"
  /\ chartDataForView' = buildChartDataForView(timeframeData, viewPlayers, hiddenPlayers)
  /\ viewPc' = "once"
  /\ UNCHANGED <<timeframeData, viewPlayers, hiddenPlayers, viewTwice, mergeVars, sliceVars, domainVars, fetchVars, appVars>>

\* lines 59-69: the call on the table the first call returned
BuildViewAgain ==
  /\ viewPc = "once"
  /\ viewTwice' = buildChartDataForView(chartDataForView, viewPlayers, hiddenPlayers)
  /\ viewPc' = "twice"
  /\ UNCHANGED <<timeframeData, viewPlayers, hiddenPlayers, chartDataForView, mergeVars, sliceVars, domainVars, fetchVars, appVars>>

NextView == BuildView \/ BuildViewAgain

SpecView == InitView /\ [][NextView]_vars

----------------------------------------------------------------------------
\* calculateYAxisDomain

\* every field of every row is collected, whoever is active
ValuesOfAllFields(table, active) ==
  UNION {{table[i].vals[u][1] : u \in {v \in DOMAIN table[i].vals : table[i].vals[v] # Null}} :
         i \in 1..Len(table)}

\* lines 72-80: the numbers in the fields of the active players (minimum and
\* maximum do not depend on their order or repetition)
Values(table, active) ==
  UNION {{table[i].vals[u][1] :
            u \in {v \in Range(active) \cap DOMAIN table[i].vals : table[i].vals[v] # Null}} :
         i \in 1..Len(table)}

\* lines 84-85: Math.min(...values), Math.max(...values)
MinOf(S) == CHOOSE x \in S : \A y \in S : x <= y
MaxOf(S) == CHOOSE x \in S : \A y \in S : y <= x

\* line 87: Math.ceil(x / 100) * 100
Ceil100(x) == (0 - ((0 - x) \div 100)) * 100

\* the lower bound rounded up instead of down
Floor100RoundedUp(x) == Ceil100(x)

\* line 86: Math.floor(x / 100) * 100
Floor100(x) == (x \div 100) * 100

\* line 82
DefaultDomain == <<0, 2000>>

\* the domain without line 88
calculateYAxisDomainNoRepair(table, active) ==
  LET values == Values(table, active)
  IN IF values = {} THEN DefaultDomain
     ELSE LET lower == IF Floor100(MinOf(values) - 40) > 0 THEN Floor100(MinOf(values) - 40) ELSE 0
              upper == Ceil100(MaxOf(values) + 40)
          IN <<lower, upper>>

\* lines 71-91
calculateYAxisDomain(table, active) ==
  LET values == Values(table, active)
  IN IF values = {} THEN DefaultDomain
     ELSE LET lower == IF Floor100(MinOf(values) - 40) > 0 THEN Floor100(MinOf(values) - 40) ELSE 0
              upper == Ceil100(MaxOf(values) + 40)
          IN <<lower, IF upper <= lower THEN lower + 100 ELSE upper>>

\* the ratings of the tables: those of the test, a small one and a negative one
DomainRatings == {-250, 20, 940, 980, 1010, 1142}

\* alpha has the higher ratings of the test and the negative one, beta the
\* lower ones and the small one
DomainVals ==
  {[alpha |-> a, beta |-> b] : a \in {Null, Num(1010), Num(1142), Num(-250)},
                               b \in {Null, Num(940), Num(980), Num(20)}}

DomainDates == SortDates(TableDates)

DomainTables ==
  UNION {[1..n -> DomainVals] : n \in 0..MaxDomainRows}

DomainRowsOf(f) == [i \in 1..Len(f) |-> [date |-> DomainDates[((i - 1) % Len(DomainDates)) + 1], vals |-> f[i]]]

\* Chess.jsx line 456: PLAYERS.filter((player) => !hiddenPlayers.has(...)), the
\* players of a roster that are left, in roster order
DomainRoster == <<"alpha", "beta", "gamma">>

RECURSIVE Filter(_, _)
Filter(roster, hidden) ==
  IF roster = <<>> THEN <<>>
  ELSE (IF Head(roster) \in hidden THEN <<>> ELSE <<Head(roster)>>) \o Filter(Tail(roster), hidden)

ActiveLists == {Filter(DomainRoster, hidden) : hidden \in SUBSET Names}

\* what an inactive player's field is changed to
ChangedValues == {Null, Num(-250), Num(1142)}

InitDomain ==
  /\ domainRows \in {DomainRowsOf(f) : f \in DomainTables}
  /\ activePlayers \in ActiveLists
  /\ yDomain = NoDomain
  /\ domainBefore = NoDomain
  /\ domainPc = "call"
  /\ MergeIdle
  /\ SliceIdle
  /\ ViewIdle
  /\ FetchIdle
  /\ AppIdle

\* lines 71-91: one call
CalculateDomain ==
  /\ domainPc = "call"
  /\ yDomain' = calculateYAxisDomain(domainRows, activePlayers)
  /\ domainPc' = "done"
  /\ UNCHANGED <<domainRows, activePlayers, domainBefore, mergeVars, sliceVars, viewVars, fetchVars, appVars>>

\* the field of a player who is not active is set, to null or to a number, or
\* removed from a row, and the domain is calculated again (lines 71-91)
RecalculateAfterInactiveChange ==
  /\ domainPc = "done"
  /\ \E i \in 1..Len(domainRows) : \E u \in Names \ Range(activePlayers) :
       \E vals \in {SetField(domainRows[i].vals, u, value) : value \in ChangedValues}
                   \cup {[v \in DOMAIN domainRows[i].vals \ {u} |-> domainRows[i].vals[v]]} :
         /\ vals # domainRows[i].vals
         /\ domainRows' = [domainRows EXCEPT ![i].vals = vals]
  /\ domainBefore' = yDomain
  /\ yDomain' = calculateYAxisDomain(domainRows', activePlayers)
  /\ domainPc' = "again"
  /\ UNCHANGED <<activePlayers, mergeVars, sliceVars, viewVars, fetchVars, appVars>>

NextDomain == CalculateDomain \/ RecalculateAfterInactiveChange

SpecDomain == InitDomain /\ [][NextDomain]_vars

----------------------------------------------------------------------------
\* fetchRapidHistory (chessApi.js)

MaxMonths == 3

\* formatting.js, toIsoDate: new Date(epochSeconds * 1000).toISOString()
\* .slice(0, 10), the UTC calendar day of an epoch, counted from 1970-01-01
DaysInYear(y) == IF IsLeapYear(y) THEN 366 ELSE 365

RECURSIVE CivilFromDays(_, _, _)
CivilFromDays(y, m, n) ==
  IF m = 1 /\ n >= DaysInYear(y) THEN CivilFromDays(y + 1, 1, n - DaysInYear(y))
  ELSE IF n >= DaysInMonth(y, m) THEN CivilFromDays(y, m + 1, n - DaysInMonth(y, m))
  ELSE <<y, m, n + 1>>

\* from 1970 to 2099 every four years hold 1461 days
toIsoDate(epochSeconds) ==
  LET days == epochSeconds \div 86400
  IN CivilFromDays(1970 + 4 * (days \div 1461), 1, days % 1461)

\* the epoch seconds of hour h (UTC) of a calendar day, as the server writes
\* them into end_time and joined
RECURSIVE DaysBeforeYear(_)
DaysBeforeYear(y) == IF y <= 1970 THEN 0 ELSE DaysBeforeYear(y - 1) + DaysInYear(y - 1)

RECURSIVE DaysBeforeMonth(_, _)
DaysBeforeMonth(y, m) == IF m <= 1 THEN 0 ELSE DaysBeforeMonth(y, m - 1) + DaysInMonth(y, m - 1)

EpochOf(day, hour) ==
  (DaysBeforeYear(day[1]) + DaysBeforeMonth(day[1], day[2]) + day[3] - 1) * 86400 + hour * 3600

\* the player whose history is fetched (already lower case), and profileData.joined
Username == "jstmtt"

JoinedEpoch == Num(EpochOf(<<2025, 1, 2>>, 8))

\* the games the player finishes during the run, as the monthly archives give
\* them: two rated rapid games on one UTC day, a blitz game, an unrated rapid
\* game, and a rated rapid game in each later month
Side(name, rating, result) == [username |-> name, rating |-> Num(rating), result |-> result]

Games ==
  { [end_time |-> EpochOf(<<2025, 1, 10>>, 10), time_class |-> "rapid", rated |-> TRUE,
     white |-> Side(Username, 1000, "win"), black |-> Side("rival", 990, "resigned")],
    [end_time |-> EpochOf(<<2025, 1, 10>>, 18), time_class |-> "rapid", rated |-> TRUE,
     white |-> Side("rival", 980, "checkmated"), black |-> Side(Username, 1010, "win")],
    [end_time |-> EpochOf(<<2025, 1, 20>>, 12), time_class |-> "blitz", rated |-> TRUE,
     white |-> Side(Username, 900, "timeout"), black |-> Side("rival", 910, "win")],
    [end_time |-> EpochOf(<<2025, 2, 5>>, 9), time_class |-> "rapid", rated |-> FALSE,
     white |-> Side(Username, 1010, "agreed"), black |-> Side("rival", 990, "agreed")],
    [end_time |-> EpochOf(<<2025, 2, 6>>, 23), time_class |-> "rapid", rated |-> TRUE,
     white |-> Side("rival", 1000, "win"), black |-> Side(Username, 1000, "resigned")],
    [end_time |-> EpochOf(<<2025, 3, 3>>, 0), time_class |-> "rapid", rated |-> TRUE,
     white |-> Side(Username, 1010, "win"), black |-> Side("rival", 990, "timeout")] }

\* a month URL .../games/YYYY/MM is the pair <<year, month>>
MonthOf(epochSeconds) == LET day == toIsoDate(epochSeconds) IN <<day[1], day[2]>>

\* lines 24-41: the while loop, from <<year, month>> to the current UTC month
RECURSIVE MonthUrlsFrom(_, _, _, _)
MonthUrlsFrom(year, month, endYear, endMonth) ==
  IF year < endYear \/ (year = endYear /\ month <= endMonth)
  THEN <<<<year, month>>>> \o (IF month + 1 > 12
                                THEN MonthUrlsFrom(year + 1, 1, endYear, endMonth)
                                ELSE MonthUrlsFrom(year, month + 1, endYear, endMonth))
  ELSE <<>>

\* lines 17-42; a joined that is not a finite number is <<>>
getMonthUrlsFromJoined(joinedEpoch, current) ==
  IF joinedEpoch = Null THEN <<>>
  ELSE MonthUrlsFrom(MonthOf(joinedEpoch[1])[1], MonthOf(joinedEpoch[1])[2],
                     current[1], current[2])

\* the games of one monthly archive of the server
ArchiveOf(server, url) == {g \in server : MonthOf(g.end_time) = url}

\* lines 44-62: the games of the months whose request was fulfilled; a month
\* whose request failed is skipped without an error
fetchMonthlyArchives(monthUrls, server, failed) ==
  UNION {ArchiveOf(server, url) : url \in Range(monthUrls) \ failed}

\* lines 107-122: the Map read from the cached history, keyed by date; a
\* missing item gives an empty Map
HistoryMapOf(item) ==
  IF item = Null THEN EmptyVals
  ELSE LET history == item[1]
       IN [d \in {history[i].date : i \in 1..Len(history)} |->
             history[MaxOf({i \in 1..Len(history) : history[i].date = d})]]

\* line 154: allMonthUrls.slice(-2)
LastTwo(urls) == IF Len(urls) <= 2 THEN urls ELSE SubSeq(urls, Len(urls) - 1, Len(urls))

\* lines 143-158: every month when the Map is empty, else the last two
UrlsToFetch(historyMap, allMonthUrls) ==
  IF DOMAIN historyMap = {} THEN allMonthUrls ELSE LastTwo(allMonthUrls)

\* lines 162-164: filter on rated rapid games, sort by end_time
RECURSIVE SortByEndTime(_)
SortByEndTime(S) ==
  IF S = {} THEN <<>>
  ELSE LET first == CHOOSE g \in S : \A h \in S : g.end_time <= h.end_time
       IN <<first>> \o SortByEndTime(S \ {first})

RapidGames(monthlyGames) ==
  SortByEndTime({game \in monthlyGames : game.time_class = "rapid" /\ game.rated})

\* lines 71-73 and 172-174: the side the player had, "none" when neither
ColorOf(game, username) ==
  IF game.white.username = username THEN "white"
  ELSE IF game.black.username = username THEN "black" ELSE "none"

\* lines 75-80
ResultType(playerResult) ==
  IF playerResult = "win" THEN "win"
  ELSE IF playerResult \in {"checkmated", "timeout", "resigned", "abandoned", "lose"} THEN "loss"
  ELSE "draw"

\* lines 69-91: the loop from game i down to the first game
RECURSIVE StreakFrom(_, _, _, _)
StreakFrom(games, i, username, streak) ==
  IF i < 1 THEN streak
  ELSE LET color == ColorOf(games[i], username)
       IN IF color = "none" THEN StreakFrom(games, i - 1, username, streak)
          ELSE IF games[i][color].result = "" THEN StreakFrom(games, i - 1, username, streak)
          ELSE LET resultType == ResultType(games[i][color].result)
               IN IF streak.type = Null
                  THEN StreakFrom(games, i - 1, username, [type |-> <<resultType>>, count |-> 1])
                  ELSE IF streak.type = <<resultType>>
                  THEN StreakFrom(games, i - 1, username, [streak EXCEPT !.count = @ + 1])
                  ELSE streak

\* lines 64-94
computeStreak(rapidGames, username) ==
  IF rapidGames = <<>> THEN Null
  ELSE <<StreakFrom(rapidGames, Len(rapidGames), username, [type |-> Null, count |-> 0])>>

\* line 181
HistoryGet(historyMap, date) ==
  IF date \in DOMAIN historyMap THEN <<historyMap[date]>> ELSE Undefined

\* an entry of the Map is never replaced
OverwritesOnlyMissing(previous, game) == previous = Undefined

\* line 183: !previous || game.end_time > previous.epoch
Overwrites(previous, game) ==
  previous = Undefined \/ game.end_time > previous[1].epoch

\* line 184: the point a game of the player gives
PointOf(game, color) ==
  [date |-> toIsoDate(game.end_time), rating |-> game[color].rating[1], epoch |-> game.end_time]

\* lines 171-186: the loop over the sorted rapid games
RECURSIVE UpdateHistoryMap(_, _, _)
UpdateHistoryMap(historyMap, games, username) ==
  IF games = <<>> THEN historyMap
  ELSE LET game == Head(games)
           color == ColorOf(game, username)
       IN IF color = "none" THEN UpdateHistoryMap(historyMap, Tail(games), username)
          ELSE IF game[color].rating = Null THEN UpdateHistoryMap(historyMap, Tail(games), username)
          ELSE LET date == toIsoDate(game.end_time)
               IN IF Overwrites(HistoryGet(historyMap, date), game)
                  THEN UpdateHistoryMap(SetField(historyMap, date, PointOf(game, color)),
                                        Tail(games), username)
                  ELSE UpdateHistoryMap(historyMap, Tail(games), username)

\* line 188: the values of the Map sorted by date
FinalHistory(historyMap) ==
  LET dates == SortDates(DOMAIN historyMap)
  IN [i \in 1..Len(dates) |-> historyMap[dates[i]]]

\* line 204: the call returns an object with two fields, not the array
ReturnValue(finalHistory, streak) ==
  [type |-> "object", history |-> finalHistory, streak |-> streak]

\* the points of the games of the player that carry a rating
PointsOf(games, username) ==
  {PointOf(g, ColorOf(g, username)) :
     g \in {h \in Range(games) : ColorOf(h, username) # "none" /\
                                 h[ColorOf(h, username)].rating # Null}}

\* lines 96-205 once the profile request has succeeded: the value returned and
\* the points seen, cached or fetched; refreshKey and savedAt of the cache item
\* are written but not read by any line, the item is modelled by its history
fetchRapidHistory(username, item, current, server, failed) ==
  LET historyMap == HistoryMapOf(item)
      allMonthUrls == getMonthUrlsFromJoined(JoinedEpoch, current)
      monthlyGames == fetchMonthlyArchives(UrlsToFetch(historyMap, allMonthUrls), server, failed)
      rapidGames == RapidGames(monthlyGames)
      finalHistory == FinalHistory(UpdateHistoryMap(historyMap, rapidGames, username))
  IN [value |-> ReturnValue(finalHistory, computeStreak(rapidGames, username)),
      seen |-> Range(FinalHistory(historyMap)) \cup PointsOf(rapidGames, username)]

InitFetch ==
  /\ utcMonth = MonthOf(JoinedEpoch[1])
  /\ archives = {}
  /\ cache = Null
  /\ fetchOutcome = "none"
  /\ fetchValue = <<>>
  /\ seenGames = {}
  /\ fetchPc = "ready"
  /\ MergeIdle
  /\ SliceIdle
  /\ ViewIdle
  /\ DomainIdle
  /\ AppIdle

\* the player finishes a game in the current month, later than every game
\* finished before
GameEnds ==
  /\ fetchPc \in {"ready", "returned"}
  /\ \E g \in Games \ archives :
       /\ MonthOf(g.end_time) = utcMonth
       /\ \A h \in archives : h.end_time < g.end_time
       /\ archives' = archives \cup {g}
  /\ fetchPc' = "ready"
  /\ UNCHANGED <<utcMonth, cache, fetchOutcome, fetchValue, seenGames,
                 mergeVars, sliceVars, viewVars, domainVars, appVars>>

\* the clock passes into the next month
NextMonth ==
  /\ fetchPc \in {"ready", "returned"}
  /\ utcMonth[2] < MaxMonths
  /\ utcMonth' = <<utcMonth[1], utcMonth[2] + 1>>
  /\ fetchPc' = "ready"
  /\ UNCHANGED <<archives, cache, fetchOutcome, fetchValue, seenGames,
                 mergeVars, sliceVars, viewVars, domainVars, appVars>>

\* lines 96-205, one call: the profile request succeeds or fails (line 103
\* throws), each month request succeeds or fails, and setItem stores the item
\* or throws (lines 191-202, ignored)
FetchRapidHistory ==
  /\ fetchPc \in {"ready", "returned"}
  /\ \E failed \in SUBSET Range(UrlsToFetch(HistoryMapOf(cache),
                                            getMonthUrlsFromJoined(JoinedEpoch, utcMonth))) :
       LET call == fetchRapidHistory(Username, cache, utcMonth, archives, failed)
       IN \E profileOk \in BOOLEAN, quotaOk \in BOOLEAN :
            IF profileOk
            THEN /\ fetchOutcome' = "fulfilled"
                 /\ fetchValue' = <<call.value>>
                 /\ cache' = IF quotaOk THEN <<call.value.history>> ELSE cache
                 /\ seenGames' = call.seen
            ELSE /\ fetchOutcome' = "rejected"
                 /\ fetchValue' = <<>>
                 /\ seenGames' = {}
                 /\ UNCHANGED cache
  /\ fetchPc' = "returned"
  /\ UNCHANGED <<utcMonth, archives, mergeVars, sliceVars, viewVars, domainVars, appVars>>

NextFetch == GameEnds \/ NextMonth \/ FetchRapidHistory

SpecFetch == InitFetch /\ [][NextFetch]_vars

----------------------------------------------------------------------------
\* The Chess component (Chess.jsx)

MaxLoads == 3

MaxFailures == 1

\* chessConfig.js: the usernames of PLAYERS
PLAYERS == <<"jstmtt", "addiprice03", "jessicasimian">>

\* lines 345-349: the four requests made for each player
Requests == {"history", "stats", "profile", "online"}

\* how the requests of one invocation end: the <<username, request>> that fail
Outcomes == {F \in SUBSET (Range(PLAYERS) \X Requests) : Cardinality(F) <= MaxFailures}

\* what the requests of a player resolve to when they succeed: the value
\* fetchRapidHistory returns for the archives of the server, the stats, the
\* profile and the is-online answer
HistoryOf(username) == fetchRapidHistory(username, Null, <<2025, MaxMonths>>, Games, {}).value

StatsOf(username) == [last |-> Num(1010), best |-> Num(1050)]

AvatarOf(username) == "avatar.png"

OnlineOf(username) == TRUE

\* line 357: history.reduce exists when the value is an array
HasReduce(value) == value.type = "array"

\* lines 357-364: the best rating of the history and of the stats
BestRating(value, stats) ==
  LET ratings == {value.items[i].rating : i \in 1..Len(value.items)} \cup
                 (IF stats.best = Null THEN {} ELSE {stats.best[1]})
  IN IF ratings = {} THEN Null ELSE Num(MaxOf(ratings))

\* lines 366-381 and 348-349: the profile of a player; a failed is-online
\* request counts as {online: false}
ProfileOf(username, failed) ==
  [current |-> StatsOf(username).last,
   best |-> BestRating(HistoryOf(username), StatsOf(username)),
   avatar |-> AvatarOf(username),
   online |-> IF <<username, "online">> \in failed THEN FALSE ELSE OnlineOf(username)]

\* lines 342-398: the try block of one invocation whose requests end as failed
\* says; it throws when a history, stats or profile request is rejected, and
\* when history.reduce is called on a value that has no reduce
TryBlock(failed) ==
  IF \E u \in Range(PLAYERS), q \in {"history", "stats", "profile"} : <<u, q>> \in failed
  THEN [threw |-> TRUE, message |-> "Request failed", series |-> EmptyVals, profiles |-> EmptyVals]
  ELSE IF \E u \in Range(PLAYERS) : ~HasReduce(HistoryOf(u))
  THEN [threw |-> TRUE, message |-> "history.reduce is not a function",
        series |-> EmptyVals, profiles |-> EmptyVals]
  ELSE [threw |-> FALSE, message |-> "",
        series |-> [u \in Range(PLAYERS) |-> HistoryOf(u)],
        profiles |-> [u \in Range(PLAYERS) |-> ProfileOf(u, failed)]]

\* line 401: e.message || "Failed to fetch Chess.com data."
ErrorMessage(message) == IF message = "" THEN "Failed to fetch Chess.com data." ELSE message

\* togglePlayer without the test of line 497
togglePlayerUnguarded(prev, username) ==
  IF username \in prev THEN prev \ {username} ELSE prev \cup {username}

\* lines 490-503: the updater togglePlayer hands to setHiddenPlayers
togglePlayer(prev, username) ==
  IF username \in prev THEN prev \ {username}
  ELSE IF Len(PLAYERS) - Cardinality(prev) <= 1 THEN prev
  ELSE prev \cup {username}

\* lines 267-273: the state of the first render
InitApp ==
  /\ loading = TRUE
  /\ error = ""
  /\ profiles = EmptyVals
  /\ lastUpdated = Null
  /\ timerPending = FALSE
  /\ inFlight = {}
  /\ started = 0
  /\ lastCall = <<>>
  /\ appPc = "rendered"
  /\ MergeIdle
  /\ SliceIdle
  /\ ViewIdle
  /\ DomainIdle
  /\ FetchIdle

\* lines 339-341: loadAllData is called and runs to its first await
BeginLoad(source) ==
  /\ started < MaxLoads
  /\ started' = started + 1
  /\ inFlight' = inFlight \cup {[id |-> started + 1, source |-> source]}
  /\ loading' = TRUE
  /\ error' = ""

\* lines 407-417: the effects of the mount call loadAllData and set the
\* midnight timeout
Mount ==
  /\ appPc = "rendered"
  /\ appPc' = "mounted"
  /\ BeginLoad("mount")
  /\ timerPending' = TRUE
  /\ UNCHANGED <<profiles, lastUpdated, lastCall, mergeVars, sliceVars, viewVars,
                 domainVars, fetchVars>>

\* lines 522-526: the refresh button, disabled while loading
ClickRefresh ==
  /\ appPc = "mounted"
  /\ ~loading
  /\ BeginLoad("button")
  /\ UNCHANGED <<profiles, lastUpdated, timerPending, lastCall, appPc, mergeVars, sliceVars,
                 viewVars, domainVars, fetchVars>>

\* lines 412-414: the midnight timeout fires
MidnightTimer ==
  /\ appPc = "mounted"
  /\ timerPending
  /\ timerPending' = FALSE
  /\ BeginLoad("timer")
  /\ UNCHANGED <<profiles, lastUpdated, lastCall, appPc, mergeVars, sliceVars, viewVars,
                 domainVars, fetchVars>>

\* lines 342-404: the requests of an invocation in flight have ended and the
\* invocation runs to its end; a new lastUpdated runs the effect of lines
\* 411-417 again, which sets a new timeout
LoadSettles ==
  /\ appPc = "mounted"
  /\ \E call \in inFlight, failed \in Outcomes :
       LET outcome == TryBlock(failed)
       IN /\ inFlight' = inFlight \ {call}
          /\ lastCall' = <<[source |-> call.source, failed |-> failed]>>
          /\ loading' = FALSE
          /\ IF outcome.threw
             THEN /\ error' = ErrorMessage(outcome.message)
                  /\ UNCHANGED <<seriesByUser, profiles, lastUpdated, timerPending>>
             ELSE /\ seriesByUser' = outcome.series
                  /\ profiles' = outcome.profiles
                  /\ lastUpdated' = Num(call.id)
                  /\ timerPending' = TRUE
                  /\ UNCHANGED error
  /\ UNCHANGED <<started, appPc, players, sortedDates, pointerByUser, lastSeen, rows, mergePc,
                 sliceVars, viewVars, domainVars, fetchVars>>

\* lines 489-504: a click on the button of a player
TogglePlayer ==
  /\ appPc = "mounted"
  /\ \E username \in Range(PLAYERS) : hiddenPlayers' = togglePlayer(hiddenPlayers, username)
  /\ UNCHANGED <<timeframeData, viewPlayers, chartDataForView, viewTwice, viewPc,
                 mergeVars, sliceVars, domainVars, fetchVars, appVars>>

NextApp == Mount \/ ClickRefresh \/ MidnightTimer \/ LoadSettles \/ TogglePlayer

SpecApp == InitApp /\ [][NextApp]_vars

----------------------------------------------------------------------------
\* Properties of mergeSeries

\* every date that occurs in a series of the mapping
InputDates == {o.date : o \in UNION {Range(seriesByUser[u]) : u \in DOMAIN seriesByUser}}

\* does player u have an observation on day d
ObservedOn(u, d) == \E o \in Range(SeriesOf(seriesByUser, u)) : o.date = d

\* the rating of u's latest observation on or before day d, null without one
LatestOnOrBefore(u, d) ==
  LET before == {o \in Range(SeriesOf(seriesByUser, u)) : DateLE(o.date, d)}
  IN IF before = {} THEN Null
     ELSE Num((CHOOSE o \in before : \A q \in before : DateLE(q.date, o.date)).rating)

\* C1: the dates of the rows mergeSeries returns are exactly the union of the
\* dates of all input series, strictly ascending, each date in exactly one row
C1_MergeCompleteness ==
  mergePc = "done" =>
    /\ {rows[i].date : i \in 1..Len(rows)} = InputDates
    /\ StrictlyIncreasing(rows)
    /\ Len(rows) = Cardinality(InputDates)

\* two players with different, overlapping sets of dates were merged
C1_Witness ==
  /\ mergePc = "done"
  /\ Len(rows) = 3
  /\ \E u, v \in DOMAIN seriesByUser :
       /\ u # v
       /\ \E d \in InputDates : ObservedOn(u, d) /\ ObservedOn(v, d)
       /\ \E d \in InputDates : ObservedOn(u, d) /\ ~ObservedOn(v, d)
       /\ \E d \in InputDates : ~ObservedOn(u, d) /\ ObservedOn(v, d)

\* C2: in every returned row the value of every roster player is the rating of
\* the player's latest observation on or before the row's date, null when
\* there is none; a player without an entry in the mapping is null everywhere
C2_ForwardFill ==
  mergePc = "done" =>
    \A i \in 1..Len(rows) :
      /\ DOMAIN rows[i].vals = Range(players)
      /\ \A u \in Range(players) :
           /\ rows[i].vals[u] = LatestOnOrBefore(u, rows[i].date)
           /\ u \notin DOMAIN seriesByUser => rows[i].vals[u] = Null

\* a roster player without an entry, and another one who is null in the first
\* row and filled on the day of a later observation
C2_Witness ==
  /\ mergePc = "done"
  /\ Len(rows) >= 2
  /\ \E u \in Range(players) : u \notin DOMAIN seriesByUser /\ rows[1].vals[u] = Null
  /\ \E u \in Range(players) :
       /\ rows[1].vals[u] = Null
       /\ rows[2].vals[u] # Null
       /\ ObservedOn(u, rows[2].date)

\* C3: between two consecutive rows the value of a player without an
\* observation on the later row's date does not change, and a value never
\* goes from a number back to null in a later row
C3_ForwardFillMonotonic ==
  mergePc = "done" =>
    \A u \in Range(players) :
      /\ \A i \in 1..(Len(rows) - 1) :
           ~ObservedOn(u, rows[i + 1].date) => rows[i + 1].vals[u] = rows[i].vals[u]
      /\ \A i, j \in 1..Len(rows) :
           i < j /\ rows[i].vals[u] # Null => rows[j].vals[u] # Null

\* a player's number is carried into a later row that has no observation of
\* that player
C3_Witness ==
  /\ mergePc = "done"
  /\ \E u \in Range(players) : \E i \in 1..(Len(rows) - 1) :
       /\ rows[i].vals[u] # Null
       /\ ~ObservedOn(u, rows[i + 1].date)
       /\ rows[i + 1].vals[u] = rows[i].vals[u]

----------------------------------------------------------------------------
\* Properties of sliceSeriesByTimeframe

\* the option the key resolves to in the list has a positive number of months
ResolvesToPositiveMonths ==
  /\ Find(timeframes, timeframe) # Undefined
  /\ Find(timeframes, timeframe)[1].months # Null
  /\ Find(timeframes, timeframe)[1].months[1] > 0

\* the cutoff day of the option the key resolves to
ResolvedCutoff == CutoffKey(now, tzOffset, Find(timeframes, timeframe)[1].months)

\* the call went past line 39 and computed cutoffKey
CutoffComputed == slicePc = "done" /\ cutoffKey # NoDate

\* indexes (from 1) of the input rows dated on or after, and on or before, day d
RowsOnOrAfter(d) == {k \in 1..Len(chartData) : DateGE(chartData[k].date, d)}
RowsOnOrBefore(d) == {k \in 1..Len(chartData) : DateLE(chartData[k].date, d)}

Least(S) == CHOOSE k \in S : \A j \in S : k <= j
Greatest(S) == CHOOSE k \in S : \A j \in S : j <= k

\* C4: for a non-empty table and a timeframe of positive months the first row
\* of the result carries the values of the last input row dated on or before
\* the cutoff date, and null for every player when there is no such row
C4_FirstRowAsOfCutoff ==
  slicePc = "done" /\ Len(chartData) > 0 /\ ResolvesToPositiveMonths =>
    /\ Len(sliced) > 0
    /\ sliced[1].vals =
         IF RowsOnOrBefore(ResolvedCutoff) = {} THEN [u \in TablePlayers |-> Null]
         ELSE chartData[Greatest(RowsOnOrBefore(ResolvedCutoff))].vals

\* C5: the result of slicing a table that is strictly increasing by date is
\* strictly increasing by date
C5_SliceStrictlyIncreasing ==
  slicePc = "done" /\ StrictlyIncreasing(chartData) => StrictlyIncreasing(sliced)

\* C6: slicing a non-empty table gives a table with at least one row
C6_SliceNonEmpty ==
  slicePc = "done" /\ Len(chartData) > 0 => Len(sliced) >= 1

\* a table of several rows, all older than the cutoff, was sliced to one row
C6_Witness ==
  /\ CutoffComputed
  /\ Len(chartData) >= 2
  /\ RowsOnOrAfter(cutoffKey) = {}
  /\ Len(sliced) = 1

\* C7: when the first row dated on or after cutoffKey is not the first row,
\* the result is one boundary row, dated cutoffKey and with the values of the
\* row before it, followed by that row and all later rows unchanged
C7_BoundaryRow ==
  CutoffComputed /\ RowsOnOrAfter(cutoffKey) # {} =>
    LET i == Least(RowsOnOrAfter(cutoffKey))
    IN i > 1 =>
         /\ Len(sliced) = 1 + (Len(chartData) - i + 1)
         /\ sliced[1].date = cutoffKey
         /\ sliced[1].vals = chartData[i - 1].vals
         /\ \A k \in i..Len(chartData) : sliced[k - i + 2] = chartData[k]

\* a boundary row whose values differ from those of the row that follows it,
\* in front of two kept rows
C7_Witness ==
  /\ CutoffComputed
  /\ startIndex = 1
  /\ Len(sliced) = 3
  /\ sliced[1].vals # sliced[2].vals
  /\ sliced[1].date # chartData[1].date

\* C8: when cutoffKey was computed for a non-empty table whose rows are all
\* dated before it, the result is the last input row alone, date unchanged
C8_AllOlderKeepsLastRow ==
  CutoffComputed /\ (\A k \in 1..Len(chartData) : DateLT(chartData[k].date, cutoffKey)) =>
    sliced = <<chartData[Len(chartData)]>>

\* a table of several rows, all older than the cutoff of a positive timeframe
C8_Witness ==
  /\ CutoffComputed
  /\ ResolvesToPositiveMonths
  /\ Len(chartData) = 3
  /\ startIndex = -1
  /\ sliced[1].date = chartData[3].date

\* C9: when the key resolves to an option of positive months and some row is
\* dated on or after the cutoff, every row of the result is dated on or after
\* the cutoff, whatever the key is called
C9_NothingBeforeCutoff ==
  slicePc = "done" /\ ResolvesToPositiveMonths /\ RowsOnOrAfter(ResolvedCutoff) # {} =>
    \A k \in 1..Len(sliced) : DateGE(sliced[k].date, ResolvedCutoff)

\* C10: the result equals the input when the selected option has months null
\* and when the input is empty
C10_SliceIdentity ==
  slicePc = "done" =>
    /\ Len(chartData) = 0 => sliced = chartData /\ sliced = <<>>
    /\ (Find(timeframes, timeframe) # Undefined /\ Find(timeframes, timeframe)[1].months = Null)
         => sliced = chartData

\* a table of several rows sliced with an unlimited option that is not called
\* "all"
C10_Witness ==
  /\ slicePc = "done"
  /\ timeframe # "all"
  /\ Find(timeframes, timeframe) # Undefined
  /\ Find(timeframes, timeframe)[1].months = Null
  /\ Len(chartData) >= 2
  /\ sliced = chartData

\* C11: a key that is not in the timeframe list gives the input table back,
\* untrimmed, as months = null does
C11_UnknownKeyNoTrim ==
  slicePc = "done" /\ (\A i \in 1..Len(timeframes) : timeframes[i].key # timeframe) =>
    /\ sliced = chartData
    /\ cutoffKey = NoDate

\* a key other than "all" that the list does not have, with a table whose
\* first row is older than every cutoff of the list
C11_Witness ==
  /\ slicePc = "done"
  /\ timeframe \notin {"all"} \cup {timeframes[i].key : i \in 1..Len(timeframes)}
  /\ Len(chartData) = 3
  /\ chartData[1].date = <<2025, 1, 1>>
  /\ sliced = chartData

\* the UTC day of the instant, stepped back by the months of the option
UtcCutoff == SetMonthBack(now.date, MonthsNumber(Find(timeframes, timeframe)[1].months))

\* C12: on every host, whatever its time zone, cutoffKey is the UTC calendar
\* day of now stepped back by the months of the timeframe
C12_CutoffIsUtcDay ==
  CutoffComputed => cutoffKey = UtcCutoff

\* C21: sliceSeriesByTimeframe never changes the table it is given: in every
\* step, the boundary-row branch included, chartData keeps its rows, dates and
\* values
C21_SliceKeepsTable ==
  [][chartData' = chartData]_vars

\* a call that prepended a boundary row dated cutoffKey, while the input row it
\* copied still carries its own date
C21_Witness ==
  /\ CutoffComputed
  /\ startIndex > 0
  /\ sliced[1].date = cutoffKey
  /\ sliced[1].vals = chartData[startIndex].vals
  /\ chartData[startIndex].date # cutoffKey
  /\ Len(chartData) = 3

\* the calendar month, <<year, month>>, that is m months before the month of a day
MonthBefore(day, m) ==
  LET index == (day[2] - 1) - m
  IN <<day[1] + (index \div 12), (index % 12) + 1>>

\* C29: for every now and every timeframe of m months, cutoffKey falls in the
\* calendar month m months before the month of now and is not later than the
\* day of now
C29_CutoffInTargetMonth ==
  CutoffComputed /\ ResolvesToPositiveMonths =>
    LET m == Find(timeframes, timeframe)[1].months[1]
    IN /\ <<cutoffKey[1], cutoffKey[2]>> = MonthBefore(now.date, m)
       /\ DateLE(cutoffKey, now.date)

----------------------------------------------------------------------------
\* Further properties of mergeSeries

\* C19: mergeSeries returns an empty table when the roster is empty, whatever
\* the mapping holds, and when the mapping has no observation at all
C19_EmptyInputsEmptyTable ==
  mergePc = "done" =>
    /\ players = <<>> => rows = <<>>
    /\ (\A u \in DOMAIN seriesByUser : seriesByUser[u] = <<>>) => rows = <<>>

\* C20: mergeSeries leaves the roster and every series as they were
C20_MergeKeepsArguments ==
  [][players' = players /\ seriesByUser' = seriesByUser]_vars

\* a call that has read every observation of two series and returned rows
C20_Witness ==
  /\ mergePc = "done"
  /\ Len(rows) >= 2
  /\ \E u, v \in Range(players) \cap DOMAIN seriesByUser :
       /\ u # v
       /\ Len(seriesByUser[u]) = 2 /\ pointerByUser[u] = 2
       /\ Len(seriesByUser[v]) >= 1 /\ pointerByUser[v] = Len(seriesByUser[v])

\* C30: during one call each cursor only moves forward and never passes the
\* end of its series; every step processes the next date of the union, once;
\* when the call returns each cursor of the roster equals the length of that
\* player's series, so each observation was consumed exactly once
C30_CursorForward ==
  /\ [](\A u \in DOMAIN pointerByUser :
          pointerByUser[u] >= 0 /\ pointerByUser[u] <= Len(SeriesOf(seriesByUser, u)))
  /\ [](mergePc = "done" =>
          /\ Len(rows) = Cardinality(InputDates)
          /\ \A i, j \in 1..Len(rows) : i # j => rows[i].date # rows[j].date
          /\ \A u \in Range(players) : pointerByUser[u] = Len(SeriesOf(seriesByUser, u)))
  /\ [][mergePc = "map" /\ mergePc' = "map" =>
          /\ Len(rows') = Len(rows) + 1
          /\ rows'[Len(rows')].date = sortedDates[Len(rows')]
          /\ \A u \in Range(players) :
               /\ pointerByUser'[u] >= pointerByUser[u]
               /\ \A k \in (pointerByUser[u] + 1)..pointerByUser'[u] :
                    SeriesOf(seriesByUser, u)[k].date = sortedDates[Len(rows')]]_vars

\* a returned call over three dates in which one cursor ran to the end of a
\* series of two while a player of the roster without a series stayed at 0
C30_Witness ==
  /\ mergePc = "done"
  /\ Len(rows) = 3
  /\ \E u, v \in Range(players) :
       /\ u \in DOMAIN seriesByUser /\ pointerByUser[u] = 2
       /\ v \notin DOMAIN seriesByUser /\ pointerByUser[v] = 0

----------------------------------------------------------------------------
\* Properties of buildChartDataForView

\* C13: in every row buildChartDataForView returns, the field of every player
\* of the hidden set is null
C13_HiddenAreNull ==
  viewPc # "call" /\ viewPc # "idle" =>
    \A i \in 1..Len(chartDataForView) : \A u \in hiddenPlayers :
      u \in DOMAIN chartDataForView[i].vals => chartDataForView[i].vals[u] = Null

\* C14: the call returns as many rows as it was given, in the same order, each
\* with the date of the input row and its value for every player that is not
\* hidden, and leaves the input rows as they were
C14_ViewFrame ==
  [][viewPc = "call" /\ viewPc' = "once" =>
       /\ timeframeData' = timeframeData
       /\ Len(chartDataForView') = Len(timeframeData)
       /\ \A i \in 1..Len(timeframeData) :
            /\ chartDataForView'[i].date = timeframeData[i].date
            /\ \A u \in Names \ hiddenPlayers :
                 /\ u \in DOMAIN chartDataForView'[i].vals <=> u \in DOMAIN timeframeData[i].vals
                 /\ u \in DOMAIN timeframeData[i].vals =>
                      chartDataForView'[i].vals[u] = timeframeData[i].vals[u]]_vars

\* of two players with a rating in two rows, one was hidden and the other kept
C14_Witness ==
  /\ viewPc = "once"
  /\ Len(timeframeData) = 2
  /\ \E u \in hiddenPlayers \cap Range(viewPlayers) \cap TablePlayers :
     \E v \in (Range(viewPlayers) \cap TablePlayers) \ hiddenPlayers :
       \A i \in 1..2 :
         /\ timeframeData[i].vals[u] # Null
         /\ chartDataForView[i].vals[u] = Null
         /\ chartDataForView[i].vals[v] # Null

\* C15: the call with hidden set H on the result of the call with H gives
\* that result again, and the call with the empty hidden set gives a table
\* equal to its input
C15_ViewIdempotent ==
  /\ viewPc = "twice" => viewTwice = chartDataForView
  /\ viewPc \in {"once", "twice"} /\ hiddenPlayers = {} => chartDataForView = timeframeData

\* a second call after a first one that nulled a rating
C15_Witness ==
  /\ viewPc = "twice"
  /\ chartDataForView # timeframeData
  /\ viewTwice = chartDataForView
  /\ \E u \in hiddenPlayers \cap TablePlayers : \E i \in 1..Len(timeframeData) :
       timeframeData[i].vals[u] # Null /\ viewTwice[i].vals[u] = Null

----------------------------------------------------------------------------
\* Properties of fetchRapidHistory

\* a call has just returned a value
Returned == fetchPc = "returned" /\ fetchOutcome = "fulfilled"

\* C23: the history a call returns is strictly increasing by date, so holds at
\* most one observation per UTC day, and the rating of each day is that of the
\* rated rapid game with the greatest end_time of that day among the games the
\* call saw for that day, in the cached history or in the archives it fetched
C23_HistoryLatestPerDay ==
  Returned =>
    LET history == fetchValue[1].history
    IN /\ StrictlyIncreasing(history)
       /\ {p.date : p \in seenGames} = {history[i].date : i \in 1..Len(history)}
       /\ \A i \in 1..Len(history) :
            LET sameDay == {p \in seenGames : p.date = history[i].date}
            IN \E p \in sameDay :
                 /\ \A q \in sameDay : q.epoch <= p.epoch
                 /\ history[i].rating = p.rating

\* a returned history of three days, for the first of which the call saw the
\* points of two games and returned the rating of the later one
C23_Witness ==
  /\ Returned
  /\ Len(fetchValue[1].history) = 3
  /\ fetchValue[1].history[1].date = <<2025, 1, 10>>
  /\ fetchValue[1].history[1].rating = 1010
  /\ Cardinality({p \in seenGames : p.date = <<2025, 1, 10>>}) = 2

\* C24: the history a call returns holds an observation for every UTC day on
\* which the player finished a rated rapid game in a monthly archive of the
\* server, from the join month to the current month
C24_FullHistory ==
  Returned =>
    \A g \in archives :
      g.time_class = "rapid" /\ g.rated =>
        \E i \in 1..Len(fetchValue[1].history) :
          fetchValue[1].history[i].date = toIsoDate(g.end_time)

----------------------------------------------------------------------------
\* Properties of the Chess component

\* an invocation of loadAllData ends in this step
LoadEnds == Cardinality(inFlight') < Cardinality(inFlight)

\* an invocation started by the midnight timeout ends in this step
TimerLoadEnds == \E call \in inFlight : call.source = "timer" /\ call \notin inFlight'

\* C22: when an invocation of loadAllData started by the midnight timeout has
\* ended, with or without an error, a midnight timeout is pending again
C22_TimerRearmed ==
  [][TimerLoadEnds => timerPending']_vars

\* C25: while an invocation of loadAllData is in flight, loading is true
C25_LoadingWhileInFlight ==
  inFlight # {} => loading

\* C26: the hidden set holds usernames of the roster only and never all of
\* them, and from a state with one visible player no toggle adds a player to it
C26_OneVisible ==
  /\ [](hiddenPlayers \subseteq Range(PLAYERS) /\
        Cardinality(hiddenPlayers) <= Len(PLAYERS) - 1)
  /\ [][Cardinality(hiddenPlayers) = Len(PLAYERS) - 1 =>
          hiddenPlayers' \subseteq hiddenPlayers]_vars

\* all players but the last of the roster are hidden
C26_Witness ==
  /\ appPc = "mounted"
  /\ hiddenPlayers = {PLAYERS[1], PLAYERS[2]}

\* C27: an invocation with a failed history, stats or profile request ends
\* with an error message, loading false, and seriesByUser, profiles and
\* lastUpdated as before; an invocation in which only is-online requests
\* failed ends without an error and with online false for those players
C27_FailureKeepsState ==
  [][LoadEnds =>
       LET failed == lastCall'[1].failed
       IN /\ (\E pair \in failed : pair[2] # "online") =>
               /\ error' # ""
               /\ ~loading'
               /\ seriesByUser' = seriesByUser
               /\ profiles' = profiles
               /\ lastUpdated' = lastUpdated
          /\ (failed # {} /\ \A pair \in failed : pair[2] = "online") =>
               /\ error' = ""
               /\ \A pair \in failed :
                    pair[1] \in DOMAIN profiles' /\ ~profiles'[pair[1]].online]_vars

\* C28: an invocation all of whose requests succeeded ends with an empty error
\* and with seriesByUser holding, for every player of the roster, the history
\* fetchRapidHistory produced for that player
C28_SuccessSetsSeries ==
  [][LoadEnds /\ lastCall'[1].failed = {} =>
       /\ error' = ""
       /\ \A u \in Range(PLAYERS) :
            u \in DOMAIN seriesByUser' /\ seriesByUser'[u] = HistoryOf(u).history]_vars

----------------------------------------------------------------------------
\* Properties of calculateYAxisDomain

DomainCalculated == domainPc \in {"done", "again"}

\* the numbers in the fields of the active players
ActiveNumbers ==
  {n \in DomainRatings :
     \E i \in 1..Len(domainRows) : \E u \in Range(activePlayers) :
       u \in DOMAIN domainRows[i].vals /\ domainRows[i].vals[u] = <<n>>}

Smallest == CHOOSE n \in ActiveNumbers : \A k \in ActiveNumbers : n <= k
Largest == CHOOSE n \in ActiveNumbers : \A k \in ActiveNumbers : k <= n

\* the multiples of 100 around the ratings of the model
Hundreds == {100 * k : k \in -10..30}

\* C16 as stated: with a number among the active fields, whatever the ratings,
\* lower <= min <= max <= upper, both bounds are multiples of 100, lower >= 0
\* and upper > lower
C16_DomainBoundsAnyRating ==
  DomainCalculated /\ ActiveNumbers # {} =>
    LET min == Smallest
        max == Largest
    IN /\ yDomain[1] <= min
       /\ max <= yDomain[2]
       /\ yDomain[1] \in Hundreds /\ yDomain[1] >= 0
       /\ yDomain[2] \in Hundreds /\ yDomain[2] > yDomain[1]

\* C16 amended: max <= upper, both bounds are multiples of 100, lower >= 0 and
\* upper > lower for all ratings, and lower <= min when no rating is negative
C16_DomainBounds ==
  DomainCalculated /\ ActiveNumbers # {} =>
    LET min == Smallest
        max == Largest
    IN /\ min >= 0 => yDomain[1] <= min
       /\ max <= yDomain[2]
       /\ yDomain[1] \in Hundreds /\ yDomain[1] >= 0
       /\ yDomain[2] \in Hundreds /\ yDomain[2] > yDomain[1]

\* ratings from 20 to 1142 in the active fields
C16_Witness ==
  /\ domainPc = "done"
  /\ yDomain = <<0, 1200>>
  /\ ActiveNumbers # {}
  /\ Smallest = 20
  /\ Largest = 1142

\* C17: [0, 2000] without a number in the active fields; otherwise lower is
\* the greatest multiple of 100 not above min - 40, or 0 if that is negative,
\* and upper the least multiple of 100 not below max + 40, or lower + 100 if
\* that is not above lower; 1010, 1142, 940, 980 give [900, 1200]
C17_DomainFormula ==
  DomainCalculated =>
    LET numbers == ActiveNumbers
    IN /\ numbers = {} => yDomain = <<0, 2000>>
       /\ numbers # {} =>
            LET low == Smallest - 40
                high == Largest + 40
                floored == CHOOSE h \in Hundreds : h <= low /\ low < h + 100
                ceiled == CHOOSE h \in Hundreds : h - 100 < high /\ high <= h
                lower == IF floored < 0 THEN 0 ELSE floored
            IN yDomain = <<lower, IF ceiled <= lower THEN lower + 100 ELSE ceiled>>
       /\ numbers = {1010, 1142, 940, 980} => yDomain = <<900, 1200>>

\* the table of the test
C17_Witness ==
  /\ domainPc = "done"
  /\ activePlayers = <<"alpha", "beta">>
  /\ Len(domainRows) = 2
  /\ domainRows[1].vals = [alpha |-> Num(1010), beta |-> Num(940)]
  /\ domainRows[2].vals = [alpha |-> Num(1142), beta |-> Num(980)]
  /\ yDomain = <<900, 1200>>

\* C18: changing, adding or removing the value of a player who is not in
\* activePlayers leaves the domain as it was
C18_InactiveIgnored ==
  domainPc = "again" => yDomain = domainBefore

\* an inactive player got a rating above every active one
C18_Witness ==
  /\ domainPc = "again"
  /\ ActiveNumbers # {}
  /\ Largest < 1142
  /\ \E i \in 1..Len(domainRows) : \E u \in DOMAIN domainRows[i].vals \ Range(activePlayers) :
       domainRows[i].vals[u] = Num(1142)
  /\ yDomain = domainBefore

=============================================================================
